---- MODULE Spec2Model ----
(***************************************************************************)
(* librbd::io::AioCompletion (src/librbd/io/AioCompletion.cc).             *)
(*                                                                         *)
(* One completion object, the thread that issues the request, the backend  *)
(* threads that report sub-operation results through complete_request,     *)
(* the work-queue thread that runs the deferred C_AioRequest of a          *)
(* zero-count request, and the threads blocked in wait_for_complete.       *)
(* Accesses to the shared fields that another thread can tell apart are    *)
(* steps of their own, so that the threads interleave as the C++ memory    *)
(* model lets them. The threads of one kind are interchangeable: the t-th  *)
(* report is made by reporter t and the w-th wait by waiter w.             *)
(*                                                                         *)
(* Spec and LiveSpec are the callers that follow the protocol; CallSpec    *)
(* adds the caller's release of its reference, and OverReportSpec,         *)
(* RebindSpec, RedeclareSpec and RefailSpec each add one kind of call made *)
(* outside the protocol.                                                   *)
(*                                                                         *)
(* Not modelled: the perf counters (lines 68-91), read_result assembly     *)
(* (lines 55-59) and tracing, which write nothing the completion reads.    *)
(***************************************************************************)
EXTENDS Integers, FiniteSets, Sequences, TLC

\* ------------------------------------------------------------- bounds

\* Most sub-operations one request fans out into.
MaxReq == 2

\* Threads that call wait_for_complete.
NumWaiters == 2

\* Calls of fail made on one completion.
MaxFails == 1

\* ---------------------------------------------------------- constants

EEXIST == 17
EIO == 5
ENOENT == 2

\* Bytes a successful sub-operation reports.
Bytes == 3

AIO_STATE_PENDING == "AIO_STATE_PENDING"
AIO_STATE_CALLBACK == "AIO_STATE_CALLBACK"
AIO_STATE_COMPLETE == "AIO_STATE_COMPLETE"

AIO_TYPE_GENERIC == "AIO_TYPE_GENERIC"
AIO_TYPE_OPEN == "AIO_TYPE_OPEN"
AIO_TYPE_CLOSE == "AIO_TYPE_CLOSE"
AIO_TYPE_READ == "AIO_TYPE_READ"

\* The kinds complete() and start_op() tell apart: open, close, and one of
\* the tracked kinds, which differ only in the latency counter they feed.
AioTypes == {AIO_TYPE_OPEN, AIO_TYPE_CLOSE, AIO_TYPE_READ}

nullptr == "nullptr"
ImageCtx == "ImageCtx"

\* Results a sub-operation may report: nothing, bytes, two real errors and
\* the benign duplicate.
Results == {0, Bytes, -EIO, -ENOENT, -EEXIST}

\* The results reported where only their sign matters.
SignResults == {Bytes, -EIO}

\* Results fail() is called with.
FailResults == {-EIO, -ENOENT}

\* ------------------------------------------------------------ threads

\* The work-queue thread, which runs the queued C_AioRequest.
WQ == 0
Reporters == 1..MaxReq
\* The thread that issues the request.
Issuer == MaxReq + 1
Threads == 0..(MaxReq + 1)
Waiters == 1..NumWaiters

\* Owners of the mutex: nobody, a thread in complete(), a waiter.
NoOwner == <<>>
ThreadId(t) == <<"thread", t>>
WaiterId(w) == <<"waiter", w>>

VARIABLES
    state,            \* aio_state_t state
    rval,             \* std::atomic<ssize_t> rval
    error_rval,       \* std::atomic<int> error_rval
    pending_count,    \* std::atomic<uint32_t> pending_count
    ictx,             \* ImageCtx *ictx
    aio_type,         \* aio_type_t aio_type
    async_op_started, \* async_op.started()
    completed_reqs,   \* entries of this completion in ictx->completed_reqs
    op_work_queue,    \* C_AioRequest items queued on ictx->op_work_queue
    lock,             \* owner of std::mutex lock
    pc,               \* where each thread stands
    prev,             \* previous_pending_count of each complete_request call
    rep,              \* the r each complete_request call was given
    err_r,            \* finalize()'s local err_r
    cr,               \* complete()'s local r
    wpc,              \* where each wait_for_complete call stands
    cb_count,         \* invocations of complete_cb so far
    cb_rval,          \* rval when complete_cb was last invoked
    request_count,    \* the count set_request_count was given, -1 before
    reported_sum,     \* sum of the positive results reported so far
    reported_neg,     \* the negative results reported so far
    aborted,          \* a ceph_assert failed: the process is gone
    failed_assert,    \* the source line of that ceph_assert, 0 before
    completed_reqs_lock,   \* owner of ictx->completed_reqs_lock
    event_notify,     \* event_notify as line 105 read it, while in 106-109
    socket_valid,     \* event_socket.is_valid() as line 105 read it, likewise
    event_socket_notified, \* calls of ictx->event_socket.notify()
    op_registered,    \* history: async_op.start_op() was called
    finish_ops,       \* history: calls of async_op.finish_op()
    ref,              \* the reference count of the completion
    released,         \* the caller released the initial reference
    declares,         \* history: calls of set_request_count
    fails             \* history: calls of fail

vars == <<state, rval, error_rval, pending_count, ictx, aio_type,
          async_op_started, completed_reqs, op_work_queue, lock, pc, prev,
          rep, err_r, cr, wpc, cb_count, cb_rval, request_count,
          reported_sum, reported_neg, aborted, failed_assert,
          completed_reqs_lock, event_notify, socket_valid,
          event_socket_notified, op_registered, finish_ops, ref, released,
          declares, fails>>

shared == <<state, rval, error_rval, pending_count, ictx, aio_type,
            async_op_started, completed_reqs, op_work_queue, lock>>
locals == <<prev, rep, err_r, cr>>
history == <<cb_count, cb_rval, request_count, reported_sum, reported_neg>>
event == <<completed_reqs_lock, event_notify, socket_valid,
           event_socket_notified>>
tracked == <<op_registered, finish_ops>>
refs == <<ref, released>>
calls == <<declares, fails>>

Init ==
    /\ state = AIO_STATE_PENDING
    /\ rval = 0
    /\ error_rval = 0
    /\ pending_count = 0
    /\ ictx = nullptr
    /\ aio_type = AIO_TYPE_GENERIC
    /\ async_op_started = FALSE
    /\ completed_reqs = 0
    /\ op_work_queue = 0
    /\ lock = NoOwner
    /\ pc = [t \in Threads |-> IF t = Issuer THEN "new" ELSE "idle"]
    /\ prev = [t \in Threads |-> 0]
    /\ rep = [t \in Threads |-> 0]
    /\ err_r = [t \in Threads |-> 0]
    /\ cr = [t \in Threads |-> 0]
    /\ wpc = [w \in Waiters |-> "idle"]
    /\ cb_count = 0
    /\ cb_rval = 0
    /\ request_count = -1
    /\ reported_sum = 0
    /\ reported_neg = {}
    /\ aborted = FALSE
    /\ failed_assert = 0
    /\ completed_reqs_lock = NoOwner
    /\ event_notify = "unread"
    /\ socket_valid = "unread"
    /\ event_socket_notified = 0
    /\ op_registered = FALSE
    /\ finish_ops = 0
    /\ ref = 1
    /\ released = FALSE
    /\ declares = 0
    /\ fails = 0

Goto(t, l) == pc' = [pc EXCEPT ![t] = l]

\* The ceph_assert of the given source line fails, which ends the process.
Fails(line) == aborted' = TRUE /\ failed_assert' = line

Abort(line) ==
    /\ Fails(line)
    /\ UNCHANGED <<shared, pc, locals, wpc, history, event, tracked, refs,
                   calls>>

\* -------------------------------------------------------- the issuer

\* Lines 126-130 of init_time(i, t): the call binds when it finds ictx
\* null. start_time is set with ictx and aio_type and is not modelled.
BindIfUnbound(t) ==
    IF ictx = nullptr
    THEN /\ ictx' = ImageCtx
         /\ aio_type' = t
    ELSE UNCHANGED <<ictx, aio_type>>

\* init_time(i, t), the first call.
init_time(t) ==
    /\ ~aborted
    /\ pc[Issuer] = "new"
    /\ BindIfUnbound(t)
    /\ Goto(Issuer, "bound")
    /\ UNCHANGED <<state, rval, error_rval, pending_count, async_op_started,
                   completed_reqs, op_work_queue, lock, locals, wpc, history,
                   aborted, failed_assert>>
    /\ UNCHANGED <<event, tracked, refs, calls>>

\* start_op(): open and close are not tracked.
start_op ==
    /\ ~aborted
    /\ pc[Issuer] = "bound"
    /\ IF ictx = nullptr \/ (aio_type \notin {AIO_TYPE_OPEN, AIO_TYPE_CLOSE}
                             /\ async_op_started)
       THEN Abort(IF ictx = nullptr THEN 134 ELSE 141)
       ELSE /\ async_op_started' =
                   (aio_type \notin {AIO_TYPE_OPEN, AIO_TYPE_CLOSE})
            /\ op_registered' =
                   (aio_type \notin {AIO_TYPE_OPEN, AIO_TYPE_CLOSE})
            /\ UNCHANGED finish_ops
            /\ Goto(Issuer, "started")
            /\ UNCHANGED <<state, rval, error_rval, pending_count, ictx,
                           aio_type, completed_reqs, op_work_queue, lock,
                           locals, wpc, history, aborted, failed_assert>>
    /\ UNCHANGED <<event, refs, calls>>

\* Variant: the count is stored as given, 0 included.
SetPendingAsGiven(count) == count

\* set_request_count(count): a count of 0 is held as 1 and finished by a
\* C_AioRequest queued on the work queue.
SetPending(count) == IF count = 0 THEN 1 ELSE count

\* Line 163: the count found by the exchange shows no earlier declaration.
NoneDeclared(previous_pending_count) == previous_pending_count = 0

\* Lines 157-171 of set_request_count(count). Each C_AioRequest takes a
\* reference of the completion when it is constructed: the one of line 168
\* for a count of 0, one per sub-operation otherwise.
DeclareCount(count) ==
    /\ declares' = declares + 1
    /\ IF ictx = nullptr
       THEN /\ Fails(158)
            /\ UNCHANGED <<shared, pc, locals, wpc, history, ref>>
       ELSE /\ pending_count' = SetPending(count)
            /\ IF ~NoneDeclared(pending_count)
               THEN /\ Fails(163)
                    /\ UNCHANGED <<op_work_queue, pc, request_count, ref>>
               ELSE /\ op_work_queue' =
                           IF count = 0 THEN op_work_queue + 1
                           ELSE op_work_queue
                    /\ request_count' = count
                    /\ ref' = ref + SetPending(count)
                    /\ Goto(Issuer, "done")
                    /\ UNCHANGED <<aborted, failed_assert>>
            /\ UNCHANGED <<state, rval, error_rval, ictx, aio_type,
                           async_op_started, completed_reqs, lock, locals,
                           wpc, cb_count, cb_rval, reported_sum,
                           reported_neg>>
    /\ UNCHANGED <<event, tracked, released, fails>>

set_request_count(count) ==
    /\ ~aborted
    /\ pc[Issuer] \in {"bound", "started"}
    /\ DeclareCount(count)

\* Lines 145-153 of fail(r), up to the call of complete(). The call owns
\* the reference that the put() of line 154 releases.
FailCall(r) ==
    /\ fails' = fails + 1
    /\ IF ictx = nullptr \/ pending_count # 0
       THEN /\ Fails(IF ictx = nullptr THEN 147 ELSE 151)
            /\ UNCHANGED <<shared, pc, locals, wpc, history, ref>>
       ELSE /\ rval' = r
            /\ ref' = ref + 1
            /\ Goto(Issuer, "c_load")
            /\ UNCHANGED <<state, error_rval, pending_count, ictx, aio_type,
                           async_op_started, completed_reqs, op_work_queue,
                           lock, locals, wpc, history, aborted, failed_assert>>
    /\ UNCHANGED <<event, tracked, released, declares>>

fail(r) ==
    /\ ~aborted
    /\ pc[Issuer] \in {"bound", "started"}
    /\ FailCall(r)

\* ------------------------------------------------- complete_request

\* The work queue runs the queued C_AioRequest, whose finish(0) calls
\* complete_request(0) on the work-queue thread.
WorkQueueItemResult == 0

\* Line 175: previous_pending_count = pending_count--. From 0 the uint32_t
\* wraps to 2^32 - 1, a value nothing reads: the assertion of line 176 ends
\* the process, and the model leaves the count as it was.
Decrement(n) == IF n = 0 THEN n ELSE n - 1

\* Variant: a count of zero passes the assertion.
StillPendingOrZero(previous_pending_count) == previous_pending_count >= 0

\* Line 176: the count found by the decrement was still positive.
StillPending(previous_pending_count) == previous_pending_count > 0

\* Lines 175-177 of complete_request(r), called by thread t.
EnterCompleteRequest(t, r) ==
    /\ pending_count' = Decrement(pending_count)
    /\ IF ~StillPending(pending_count)
       THEN /\ Fails(176)
            /\ UNCHANGED <<pc, prev, rep, reported_sum, reported_neg>>
       ELSE /\ prev' = [prev EXCEPT ![t] = pending_count]
            /\ rep' = [rep EXCEPT ![t] = r]
            /\ reported_sum' = IF r > 0 THEN reported_sum + r
                               ELSE reported_sum
            /\ reported_neg' = IF r < 0 THEN reported_neg \cup {r}
                               ELSE reported_neg
            /\ Goto(t, "cr_agg")
            /\ UNCHANGED <<aborted, failed_assert>>
    /\ UNCHANGED <<state, rval, error_rval, ictx, aio_type,
                   async_op_started, completed_reqs, lock, err_r, cr, wpc,
                   cb_count, cb_rval, request_count>>

\* A backend thread reports the result of its sub-operation. The t-th
\* report is made by thread t.
complete_request(t, r) ==
    /\ ~aborted
    /\ t \in Reporters
    /\ pc[t] = "idle"
    /\ t <= request_count
    /\ IF t = 1 THEN TRUE ELSE pc[t - 1] # "idle"
    /\ EnterCompleteRequest(t, r)
    /\ UNCHANGED op_work_queue
    /\ UNCHANGED <<event, tracked, refs, calls>>

WorkQueueRun ==
    /\ ~aborted
    /\ op_work_queue > 0
    /\ pc[WQ] = "idle"
    /\ op_work_queue' = op_work_queue - 1
    /\ EnterCompleteRequest(WQ, WorkQueueItemResult)
    /\ UNCHANGED <<event, tracked, refs, calls>>

\* Lines 182-189: what one report does to rval and error_rval.
AggregateRval(r, cur) == IF r > 0 THEN cur + r ELSE cur

\* Variant: -EEXIST is offered to error_rval like any other error.
AggregateErrorLatchDup(r, cur) == IF r <= 0 /\ cur = 0 THEN r ELSE cur

AggregateError(r, cur) ==
    IF r <= 0 /\ r # -EEXIST /\ cur = 0 THEN r ELSE cur

\* Variant: line 193 reads the shared counter again.
ReachedZeroReread(t) == pending_count = 0

\* Lines 177 and 193: the call that took pending_count to zero finishes
\* the request. It tests its own copy of the count, not the shared one.
ReachedZero(t) == prev[t] - 1 = 0

\* Lines 179-196 of complete_request: the assertion on ictx, the
\* aggregation and the test of the local pending_count. ictx is a plain
\* pointer that complete() may be writing on another thread: the read at
\* line 179 races with that write, so once ictx is null the assertion may
\* fail or may pass on a stale value.
Aggregate(t) ==
    /\ ~aborted
    /\ pc[t] = "cr_agg"
    /\ \/ /\ ictx = nullptr
          /\ Abort(179)
       \/ /\ rval' = AggregateRval(rep[t], rval)
          /\ error_rval' = AggregateError(rep[t], error_rval)
          /\ Goto(t, IF ReachedZero(t) THEN "f_load" ELSE "put")
          /\ prev' = [prev EXCEPT ![t] = 0]
          /\ rep' = [rep EXCEPT ![t] = 0]
          /\ UNCHANGED <<state, pending_count, ictx, aio_type,
                         async_op_started, completed_reqs, op_work_queue,
                         lock, err_r, cr, wpc, history, aborted, failed_assert>>
    /\ UNCHANGED <<event, tracked, refs, calls>>

\* ----------------------------------------------------------- finalize

\* Lines 45-50: err_r = error_rval.
FinalizeLoad(t) ==
    /\ ~aborted
    /\ pc[t] = "f_load"
    /\ IF ictx = nullptr
       THEN Abort(45)
       ELSE /\ err_r' = [err_r EXCEPT ![t] = error_rval]
            /\ Goto(t, "f_store")
            /\ UNCHANGED <<shared, prev, rep, cr, wpc, history, aborted, failed_assert>>
    /\ UNCHANGED <<event, tracked, refs, calls>>

\* Lines 51-53: a latched error replaces the byte count.
FinalRval(e, cur) == IF e < 0 THEN e ELSE cur

FinalizeStore(t) ==
    /\ ~aborted
    /\ pc[t] = "f_store"
    /\ rval' = FinalRval(err_r[t], rval)
    /\ err_r' = [err_r EXCEPT ![t] = 0]
    /\ Goto(t, "c_load")
    /\ UNCHANGED <<state, error_rval, pending_count, ictx, aio_type,
                   async_op_started, completed_reqs, op_work_queue, lock,
                   prev, rep, cr, wpc, history, aborted, failed_assert>>
    /\ UNCHANGED <<event, tracked, refs, calls>>

\* ----------------------------------------------------------- complete

\* Lines 63-66: r = rval.
CompleteLoad(t) ==
    /\ ~aborted
    /\ pc[t] = "c_load"
    /\ IF ictx = nullptr
       THEN Abort(63)
       ELSE /\ cr' = [cr EXCEPT ![t] = rval]
            /\ Goto(t, "c_destroy")
            /\ UNCHANGED <<shared, prev, rep, err_r, wpc, history, aborted, failed_assert>>
    /\ UNCHANGED <<event, tracked, refs, calls>>

\* Variant: only a close takes its context with it.
DestroysCtxOnClose(type, r) == type = AIO_TYPE_CLOSE

\* Line 93-94: the requests whose context dies with them.
DestroysCtx(type, r) ==
    type = AIO_TYPE_CLOSE \/ (type = AIO_TYPE_OPEN /\ r < 0)

\* Lines 93-98: delete ictx; ictx = nullptr.
CompleteDestroy(t) ==
    /\ ~aborted
    /\ pc[t] = "c_destroy"
    /\ ictx' = IF DestroysCtx(aio_type, cr[t]) THEN nullptr ELSE ictx
    /\ Goto(t, "c_callback")
    /\ UNCHANGED <<state, rval, error_rval, pending_count, aio_type,
                   async_op_started, completed_reqs, op_work_queue, lock,
                   locals, wpc, history, aborted, failed_assert>>
    /\ UNCHANGED <<event, tracked, refs, calls>>

\* Variant: the request is marked complete before the callback runs.
StateForCallbackComplete == AIO_STATE_COMPLETE

\* Line 100: the state in which the callback runs.
StateForCallback == AIO_STATE_CALLBACK

\* Line 100: state = AIO_STATE_CALLBACK.
CompleteStateCallback(t) ==
    /\ ~aborted
    /\ pc[t] = "c_callback"
    /\ state' = StateForCallback
    /\ Goto(t, "c_invoke")
    /\ UNCHANGED <<rval, error_rval, pending_count, ictx, aio_type,
                   async_op_started, completed_reqs, op_work_queue, lock,
                   locals, wpc, history, aborted, failed_assert>>
    /\ UNCHANGED <<event, tracked, refs, calls>>

\* Lines 101-102: complete_cb(rbd_comp, complete_arg) is entered.
CompleteInvokeCallback(t) ==
    /\ ~aborted
    /\ pc[t] = "c_invoke"
    /\ cb_count' = cb_count + 1
    /\ cb_rval' = rval
    /\ cr' = [cr EXCEPT ![t] = 0]
    /\ Goto(t, "in_cb")
    /\ UNCHANGED <<shared, prev, rep, err_r, wpc, request_count,
                   reported_sum, reported_neg, aborted, failed_assert>>
    /\ UNCHANGED <<event, tracked, refs, calls>>

\* Line 103: complete_cb returns.
CallbackReturn(t) ==
    /\ ~aborted
    /\ pc[t] = "in_cb"
    /\ Goto(t, "c_event")
    /\ UNCHANGED <<shared, locals, wpc, history, aborted, failed_assert>>
    /\ UNCHANGED <<event, tracked, refs, calls>>

\* What complete() finds when it reads a flag at line 105.
Read(flag) == IF flag THEN "yes" ELSE "no"

\* Variant: the validity of the event socket is not looked at.
QueuesWithoutSocket(c, notify, valid) == c # nullptr /\ notify = "yes"

\* Line 105: the completion is queued for the event socket when the
\* context lives, event_notify is set and the event socket is valid. The
\* && stops reading at the first operand that is false.
Queues(c, notify, valid) == c # nullptr /\ notify = "yes" /\ valid = "yes"

\* Lines 105-106: the test, and ictx->completed_reqs_lock.Lock(). What
\* the test read is kept for as long as the block of lines 106-109 runs.
CompleteEvent(t, notify, valid) ==
    /\ ~aborted
    /\ pc[t] = "c_event"
    /\ IF Queues(ictx, Read(notify), Read(valid))
       THEN /\ completed_reqs_lock = NoOwner
            /\ completed_reqs_lock' = ThreadId(t)
            /\ event_notify' = Read(notify)
            /\ socket_valid' = Read(valid)
            /\ Goto(t, "c_push")
       ELSE /\ Goto(t, "c_complete")
            /\ UNCHANGED <<completed_reqs_lock, event_notify, socket_valid>>
    /\ UNCHANGED <<shared, locals, wpc, history, aborted, failed_assert,
                   event_socket_notified>>
    /\ UNCHANGED <<tracked, refs, calls>>

\* Line 107: ictx->completed_reqs.push_back(&m_xlist_item).
CompleteEventPush(t) ==
    /\ ~aborted
    /\ pc[t] = "c_push"
    /\ completed_reqs' = completed_reqs + 1
    /\ Goto(t, "c_signal")
    /\ UNCHANGED <<state, rval, error_rval, pending_count, ictx, aio_type,
                   async_op_started, op_work_queue, lock, locals, wpc,
                   history, aborted, failed_assert>>
    /\ UNCHANGED <<event, tracked, refs, calls>>

\* Lines 108-109: completed_reqs_lock.Unlock(); event_socket.notify().
CompleteEventSignal(t) ==
    /\ ~aborted
    /\ pc[t] = "c_signal"
    /\ completed_reqs_lock' = NoOwner
    /\ event_socket_notified' = event_socket_notified + 1
    /\ event_notify' = "unread"
    /\ socket_valid' = "unread"
    /\ Goto(t, "c_complete")
    /\ UNCHANGED <<shared, locals, wpc, history, aborted, failed_assert>>
    /\ UNCHANGED <<tracked, refs, calls>>

\* Line 111: state = AIO_STATE_COMPLETE.
CompleteStateComplete(t) ==
    /\ ~aborted
    /\ pc[t] = "c_complete"
    /\ state' = AIO_STATE_COMPLETE
    /\ Goto(t, "c_lock")
    /\ UNCHANGED <<rval, error_rval, pending_count, ictx, aio_type,
                   async_op_started, completed_reqs, op_work_queue, lock,
                   locals, wpc, history, aborted, failed_assert>>
    /\ UNCHANGED <<event, tracked, refs, calls>>

\* Line 114: std::unique_lock<std::mutex> locker(lock).
CompleteLock(t) ==
    /\ ~aborted
    /\ pc[t] = "c_lock"
    /\ lock = NoOwner
    /\ lock' = ThreadId(t)
    /\ Goto(t, "c_notify")
    /\ UNCHANGED <<state, rval, error_rval, pending_count, ictx, aio_type,
                   async_op_started, completed_reqs, op_work_queue, locals,
                   wpc, history, aborted, failed_assert>>
    /\ UNCHANGED <<event, tracked, refs, calls>>

\* Variant: cond.notify_one().
NotifyOne(w) ==
    IF \E x \in Waiters : w[x] = "w_wait"
    THEN [w EXCEPT ![CHOOSE x \in Waiters : w[x] = "w_wait"] = "w_relock"]
    ELSE w

\* cond.notify_all(): every thread blocked in cond.wait leaves the wait
\* and goes on to take the mutex again.
NotifyAll(w) == [x \in Waiters |-> IF w[x] = "w_wait" THEN "w_relock" ELSE w[x]]

\* Lines 115-116: cond.notify_all(), and the locker goes out of scope.
CompleteNotify(t) ==
    /\ ~aborted
    /\ pc[t] = "c_notify"
    /\ wpc' = NotifyAll(wpc)
    /\ lock' = NoOwner
    /\ Goto(t, "c_finish_op")
    /\ UNCHANGED <<state, rval, error_rval, pending_count, ictx, aio_type,
                   async_op_started, completed_reqs, op_work_queue, locals,
                   history, aborted, failed_assert>>
    /\ UNCHANGED <<event, tracked, refs, calls>>

\* Variant: finish_op is called whether or not the operation was started.
FinishesOpAlways(started) == TRUE

\* Line 119: only an operation that start_op registered is finished.
FinishesOp(started) == started

\* Lines 119-123: async_op.finish_op(), and complete() returns.
CompleteFinishOp(t) ==
    /\ ~aborted
    /\ pc[t] = "c_finish_op"
    /\ IF FinishesOp(async_op_started)
       THEN /\ async_op_started' = FALSE
            /\ finish_ops' = finish_ops + 1
       ELSE UNCHANGED <<async_op_started, finish_ops>>
    /\ UNCHANGED op_registered
    /\ Goto(t, "put")
    /\ UNCHANGED <<state, rval, error_rval, pending_count, ictx, aio_type,
                   completed_reqs, op_work_queue, lock, locals, wpc, history,
                   aborted, failed_assert>>
    /\ UNCHANGED <<event, refs, calls>>

\* Variant: the call drops two references.
PutTwice(t) ==
    /\ ~aborted
    /\ pc[t] = "put"
    /\ ref' = ref - 2
    /\ UNCHANGED released
    /\ Goto(t, "done")
    /\ UNCHANGED <<shared, locals, wpc, history, aborted, failed_assert>>
    /\ UNCHANGED <<event, tracked, calls>>

\* Lines 197-198 and 154-155: put() drops the reference of the call, and
\* the call returns.
Put(t) ==
    /\ ~aborted
    /\ pc[t] = "put"
    /\ ref' = ref - 1
    /\ UNCHANGED released
    /\ Goto(t, "done")
    /\ UNCHANGED <<shared, locals, wpc, history, aborted, failed_assert>>
    /\ UNCHANGED <<event, tracked, calls>>

\* The caller releases the initial reference, once, when it has seen the
\* request leave the pending state (from the callback or after a wait).
release ==
    /\ ~aborted
    /\ ~released
    /\ state # AIO_STATE_PENDING
    /\ released' = TRUE
    /\ ref' = ref - 1
    /\ UNCHANGED <<shared, pc, locals, wpc, history, aborted, failed_assert>>
    /\ UNCHANGED <<event, tracked, calls>>

\* -------------------------------------------------- wait_for_complete

\* Line 35: std::unique_lock<std::mutex> locker(lock), on entry and when
\* cond.wait takes the mutex again. The w-th call is made by waiter w.
WaitLock(w) ==
    /\ ~aborted
    /\ wpc[w] \in {"idle", "w_relock"}
    /\ IF w = 1 THEN TRUE ELSE wpc[w - 1] # "idle"
    /\ lock = NoOwner
    /\ lock' = WaiterId(w)
    /\ wpc' = [wpc EXCEPT ![w] = "w_check"]
    /\ UNCHANGED <<state, rval, error_rval, pending_count, ictx, aio_type,
                   async_op_started, completed_reqs, op_work_queue, pc,
                   locals, history, aborted, failed_assert>>
    /\ UNCHANGED <<event, tracked, refs, calls>>

\* Variant: the loop waits only while the request is pending.
MustWaitWhilePending(s) == s = AIO_STATE_PENDING

\* Line 36: the loop condition of wait_for_complete.
MustWait(s) == s # AIO_STATE_COMPLETE

\* Lines 36-41: either cond.wait(locker) releases the mutex and blocks, or
\* the loop ends, the locker goes out of scope and the call returns 0.
WaitCheck(w) ==
    /\ ~aborted
    /\ wpc[w] = "w_check"
    /\ lock' = NoOwner
    /\ wpc' = [wpc EXCEPT ![w] = IF MustWait(state) THEN "w_wait"
                                  ELSE "w_done"]
    /\ UNCHANGED <<state, rval, error_rval, pending_count, ictx, aio_type,
                   async_op_started, completed_reqs, op_work_queue, pc,
                   locals, history, aborted, failed_assert>>
    /\ UNCHANGED <<event, tracked, refs, calls>>

\* Line 37: std::condition_variable::wait may wake up spuriously.
SpuriousWakeup(w) ==
    /\ ~aborted
    /\ wpc[w] = "w_wait"
    /\ wpc' = [wpc EXCEPT ![w] = "w_relock"]
    /\ UNCHANGED <<shared, pc, locals, history, aborted, failed_assert>>
    /\ UNCHANGED <<event, tracked, refs, calls>>

\* ------------------------------------------- calls outside the protocol

\* init_time(i, t) called again, at any point after the first call.
init_time_again(t) ==
    /\ ~aborted
    /\ pc[Issuer] # "new"
    /\ BindIfUnbound(t)
    /\ UNCHANGED <<state, rval, error_rval, pending_count, async_op_started,
                   completed_reqs, op_work_queue, lock, pc, locals, wpc,
                   history, aborted, failed_assert>>
    /\ UNCHANGED <<event, tracked, refs, calls>>

\* set_request_count(count) called a second time, after the first call
\* has returned.
set_request_count_again(count) ==
    /\ ~aborted
    /\ pc[Issuer] = "done"
    /\ declares = 1
    /\ DeclareCount(count)

\* complete_request(r) called by a thread that stands for no declared
\* sub-operation: before any declaration, or beyond the declared count.
\* Its C_AioRequest holds a reference like any other.
over_report(t, r) ==
    /\ ~aborted
    /\ t \in Reporters
    /\ pc[t] = "idle"
    /\ t > request_count
    /\ EnterCompleteRequest(t, r)
    /\ ref' = ref + 1
    /\ UNCHANGED <<op_work_queue, released>>
    /\ UNCHANGED <<event, tracked, calls>>

\* fail(r) called after an earlier set_request_count or fail has returned.
fail_again(r) ==
    /\ ~aborted
    /\ pc[Issuer] = "done"
    /\ fails < MaxFails
    /\ FailCall(r)

\* ---------------------------------------------------------- accessors

\* Variant: true only in the terminal state.
IsCompleteWhenSettled == state = AIO_STATE_COMPLETE

\* Lines 200-205: what is_complete() returns.
IsComplete == state # AIO_STATE_PENDING

\* Lines 207-212: what get_return_value() returns.
GetReturnValue == rval

\* ------------------------------------------------------ specification

\* The steps of the threads that issue the request, report to it and
\* finish it, the reports drawing their results from R.
CallsOver(R) ==
    \/ \E t \in AioTypes : init_time(t)
    \/ start_op
    \/ \E count \in 0..MaxReq : set_request_count(count)
    \/ \E r \in FailResults : fail(r)
    \/ \E t \in Reporters : \E r \in R : complete_request(t, r)
    \/ WorkQueueRun
    \/ \E t \in Threads :
          \/ Aggregate(t)
          \/ FinalizeLoad(t)
          \/ FinalizeStore(t)
          \/ CompleteLoad(t)
          \/ CompleteDestroy(t)
          \/ CompleteStateCallback(t)
          \/ CompleteInvokeCallback(t)
          \/ CallbackReturn(t)
          \/ \E en \in BOOLEAN : \E sv \in BOOLEAN : CompleteEvent(t, en, sv)
          \/ CompleteEventPush(t)
          \/ CompleteEventSignal(t)
          \/ CompleteStateComplete(t)
          \/ CompleteLock(t)
          \/ CompleteNotify(t)
          \/ CompleteFinishOp(t)
          \/ Put(t)

\* Every step of the program: those calls and the threads in
\* wait_for_complete.
NextOver(R) ==
    \/ CallsOver(R)
    \/ \E w \in Waiters :
          \/ WaitLock(w)
          \/ WaitCheck(w)
          \/ SpuriousWakeup(w)

Next == NextOver(Results)

Spec == Init /\ [][Next]_vars

\* The calls alone, with a caller that releases its reference as soon as
\* the request has left the pending state.
CallNext ==
    \/ CallsOver(SignResults)
    \/ release

CallSpec == Init /\ [][CallNext]_vars

\* The calls, and complete_request calls that stand for no declared
\* sub-operation.
OverReportNext ==
    \/ CallsOver(SignResults)
    \/ \E t \in Reporters : \E r \in SignResults : over_report(t, r)

OverReportSpec == Init /\ [][OverReportNext]_vars

\* The calls, and init_time called again at any later point.
RebindNext ==
    \/ CallsOver(SignResults)
    \/ \E t \in AioTypes : init_time_again(t)

RebindSpec == Init /\ [][RebindNext]_vars

\* The calls, and a second set_request_count.
RedeclareNext ==
    \/ CallsOver(SignResults)
    \/ \E count \in 0..MaxReq : set_request_count_again(count)

RedeclareSpec == Init /\ [][RedeclareNext]_vars

\* The calls, and fail called after the request has been issued.
RefailNext ==
    \/ CallsOver(SignResults)
    \/ \E r \in FailResults : fail_again(r)

RefailSpec == Init /\ [][RefailNext]_vars

\* The steps a thread inside complete_request, finalize or complete takes
\* on its own. The user callback is the caller's code and need not return.
Run(t) ==
    \/ Aggregate(t)
    \/ FinalizeLoad(t)
    \/ FinalizeStore(t)
    \/ CompleteLoad(t)
    \/ CompleteDestroy(t)
    \/ CompleteStateCallback(t)
    \/ CompleteInvokeCallback(t)
    \/ \E en \in BOOLEAN : \E sv \in BOOLEAN : CompleteEvent(t, en, sv)
    \/ CompleteEventPush(t)
    \/ CompleteEventSignal(t)
    \/ CompleteStateComplete(t)
    \/ CompleteLock(t)
    \/ CompleteNotify(t)
    \/ CompleteFinishOp(t)
    \/ Put(t)

\* The waits and the deferred completion read no result but the sign that
\* decides whether the context dies: one success and one error suffice.
LiveNext == NextOver(SignResults)

\* A thread that can run does run, the work queue runs what is queued on
\* it, and a waiter that can take the mutex takes it. Nothing makes the
\* backend report, the callback return or a wait wake up spuriously.
LiveSpec ==
    /\ Init /\ [][LiveNext]_vars
    /\ WF_vars(WorkQueueRun)
    /\ \A t \in Threads : WF_vars(Run(t))
    /\ \A w \in Waiters : WF_vars(WaitLock(w)) /\ WF_vars(WaitCheck(w))

\* ------------------------------------------------------------- claims

\* The reports the request declared have all been made and have returned.
AllReported ==
    /\ request_count >= 1
    /\ \A t \in Reporters : t <= request_count => pc[t] = "done"

\* C1: after set_request_count(N), N >= 1, the user callback is never
\* invoked twice, and once the N complete_request calls have returned it
\* has been invoked exactly once.
C1_CallbackExactlyOnce ==
    /\ cb_count <= 1
    /\ AllReported => cb_count = 1

C1_Witness ==
    /\ request_count = 2
    /\ AllReported
    /\ cb_count = 1

\* The report of thread t has been added to rval or offered to error_rval,
\* or is one (0, -EEXIST) that changes neither.
Accounted(t) ==
    \/ pc[t] \notin {"idle", "cr_agg"}
    \/ pc[t] = "cr_agg" /\ rep[t] \in {0, -EEXIST}

\* Some thread has read error_rval in finalize(), or is further on.
FinalizeRan ==
    \/ cb_count >= 1
    \/ \E t \in Threads :
          pc[t] \in {"f_store", "c_load", "c_destroy", "c_callback", "c_invoke"}

\* C2: when finalize() runs, and so when the callback is invoked, each of
\* the N reports has been accounted for.
C2_AccountedBeforeFinalize ==
    (request_count >= 1 /\ FinalizeRan) =>
        \A t \in Reporters : t <= request_count => Accounted(t)

\* The errors reported, the benign duplicate apart.
ReportedErrors == reported_neg \ {-EEXIST}

\* C3: if a report carried an error other than -EEXIST, the callback is
\* invoked with rval a reported error code.
C3_ErrorWins ==
    (request_count >= 1 /\ cb_count >= 1 /\ ReportedErrors # {}) =>
        cb_rval \in ReportedErrors

\* C4: if no report carried an error, the callback is invoked with rval the
\* sum of the positive results reported.
C4_BytesSum ==
    (request_count >= 1 /\ cb_count >= 1 /\ reported_neg = {}) =>
        cb_rval = reported_sum

\* C5: once is_complete() returns true, and so once wait_for_complete has
\* returned, get_return_value() returns the same value ever after.
C5_ResultStable ==
    [][IsComplete => GetReturnValue' = GetReturnValue]_vars

\* Thread t takes the aggregation step of its complete_request call.
Aggregates(t) == pc[t] = "cr_agg" /\ pc'[t] # "cr_agg"

\* C6: error_rval never holds -EEXIST; a report of -EEXIST changes neither
\* error_rval nor rval; a latched error is never replaced; and a real
\* error is latched whenever none is, whatever was reported before.
C6_DuplicateNotLatched ==
    [][/\ error_rval' # -EEXIST
       /\ error_rval # 0 => error_rval' = error_rval
       /\ \A t \in Threads :
             /\ (Aggregates(t) /\ rep[t] = -EEXIST) =>
                    (error_rval' = error_rval /\ rval' = rval)
             /\ (Aggregates(t) /\ rep[t] < 0 /\ rep[t] # -EEXIST
                              /\ error_rval = 0) =>
                    error_rval' = rep[t]
      ]_vars

C6_Witness ==
    /\ AllReported
    /\ -EEXIST \in reported_neg
    /\ error_rval = -EIO
    /\ cb_rval = -EIO

\* The step in which set_request_count(0) returns.
DeclaresZero == request_count # 0 /\ request_count' = 0

\* What that step does: pending_count is 1, one more item is queued, and
\* neither state nor the callback is touched.
DefersCompletion ==
    /\ pending_count' = 1
    /\ op_work_queue' = op_work_queue + 1
    /\ state' = state
    /\ cb_count' = cb_count

\* The callback is entered by the work-queue thread, for the first time.
InvokedByWorkQueue == pc[WQ] = "c_invoke" /\ cb_count = 0

\* C7: set_request_count(0) leaves pending_count at 1 and one more item on
\* the work queue, without touching state or invoking the callback; the
\* callback is invoked by the work-queue thread only, and if the work queue
\* runs its items it comes to be invoked, exactly once.
C7_ZeroCountDeferred ==
    /\ [][(DeclaresZero => DefersCompletion)
          /\ ((request_count = 0 /\ cb_count' # cb_count)
                 => InvokedByWorkQueue)]_vars
    /\ (request_count = 0) ~> (cb_count = 1)

C7_Witness ==
    /\ request_count = 0
    /\ cb_count = 1
    /\ pc[WQ] = "in_cb"
    /\ pc[Issuer] = "done"

\* C8: a thread has returned from wait_for_complete only if state is
\* AIO_STATE_COMPLETE.
C8_WaitersReturnWhenComplete ==
    \A w \in Waiters : wpc[w] = "w_done" => state = AIO_STATE_COMPLETE

C8_Witness ==
    /\ \A w \in Waiters : w <= 2 => wpc[w] = "w_done"
    /\ \E t \in Threads : pc[t] = "c_finish_op"

\* complete() has notified the waiters.
Notified ==
    /\ state = AIO_STATE_COMPLETE
    /\ \A t \in Threads : pc[t] \notin {"c_lock", "c_notify"}

\* No thread is inside wait_for_complete.
NoneWaiting == \A w \in Waiters : wpc[w] \in {"idle", "w_done"}

\* C9: once complete() has notified, no thread is left blocked in
\* cond.wait, and the threads inside wait_for_complete, blocked or
\* entering, all come to return (a process ended by a failed assertion has
\* no threads left to return).
C9_NoLostWakeup ==
    /\ [](Notified => \A w \in Waiters : wpc[w] # "w_wait")
    /\ Notified ~> (NoneWaiting \/ aborted)

C9_Witness ==
    /\ Notified
    /\ ~aborted
    /\ wpc[1] = "w_relock"
    /\ wpc[2] = "w_relock"

\* Line 100 has run: state has been set to AIO_STATE_CALLBACK.
CallbackStateSet == cb_count >= 1 \/ \E t \in Threads : pc[t] = "c_invoke"

\* C10: is_complete() returns true once complete() has set state to
\* AIO_STATE_CALLBACK and false before; while the callback runs it returns
\* true and wait_for_complete still blocks.
C10_IsCompleteFromCallback ==
    /\ IsComplete <=> CallbackStateSet
    /\ (\E t \in Threads : pc[t] = "in_cb") =>
           (IsComplete /\ MustWait(state))

C10_Witness ==
    /\ \E t \in Threads : pc[t] = "in_cb"
    /\ IsComplete
    /\ \E w \in Waiters : wpc[w] = "w_wait"

\* ------------------------------------------------------------- C11

\* The thread t is about to enter the user callback (line 101), the state
\* already being Callback.
Invoking(t) == pc[t] = "c_invoke"

\* complete() found a close, or an open whose result r (line 66) is
\* negative.
ClosesOrFailsOpen(t) ==
    aio_type = AIO_TYPE_CLOSE \/ (aio_type = AIO_TYPE_OPEN /\ cr[t] < 0)

\* C11: when complete() invokes the user callback, the context has been
\* destroyed and ictx is null if the request is a close or an open whose
\* result is negative, and the context is alive for every other kind and
\* result, an open with a result >= 0 included.
C11_ContextDestroyedBeforeCallback ==
    \A t \in Threads :
        Invoking(t) => (ictx = nullptr <=> ClosesOrFailsOpen(t))

\* A failed open reaches its callback with the context gone.
C11_Witness ==
    /\ cb_count = 1
    /\ aio_type = AIO_TYPE_OPEN
    /\ cb_rval < 0
    /\ ictx = nullptr
    /\ \E t \in Threads : pc[t] = "in_cb"

\* ------------------------------------------------------------- C12

\* C12: a second set_request_count on the same completion always trips the
\* assertion previous_pending_count == 0 of line 163, whenever it is made.
C12_SecondDeclareDetected == declares >= 2 => aborted

\* ------------------------------------------------------------- C13

\* No call of complete_request gets past line 176 in this step.
NoneEnters ==
    \A t \in Threads : pc'[t] = "cr_agg" => pc[t] = "cr_agg"

\* C13: a complete_request call made while pending_count is 0 (nothing
\* declared, or everything delivered) fails the assertion of line 176 and
\* never reaches the aggregation, finalize() or complete(): every call
\* that got past line 176 found a positive count, and over-reporting
\* never brings a second callback.
C13_OverReportDetected ==
    /\ [][pending_count = 0 => NoneEnters]_vars
    /\ [](\A t \in Threads : pc[t] = "cr_agg" => prev[t] >= 1)
    /\ [](cb_count <= 1)

\* A report beyond the declared ones, made after the request has
\* completed, has failed the assertion of line 176.
C13_Witness ==
    /\ failed_assert = 176
    /\ request_count >= 0
    /\ cb_count = 1
    /\ state = AIO_STATE_COMPLETE

\* ------------------------------------------------------------- C14

\* C14: state only moves from Pending to Callback and from Callback to
\* Complete, under any sequence of init_time, set_request_count,
\* complete_request and fail calls that pass their assertions.
C14_StateMonotonic ==
    [][state' # state =>
          \/ state = AIO_STATE_PENDING /\ state' = AIO_STATE_CALLBACK
          \/ state = AIO_STATE_CALLBACK /\ state' = AIO_STATE_COMPLETE]_vars

\* ------------------------------------------------------------- C15

\* C15: over the whole lifetime of a completion the user callback is
\* invoked at most once, whichever call reaches complete().
C15_CallbackAtMostOnce == cb_count < 2

\* ------------------------------------------------------------- C16

\* C16: once init_time has been called, no later call of it changes ictx
\* or aio_type: ictx only ever goes from the bound context to null, and
\* aio_type stays.
C16_InitTimeIdempotent ==
    [][pc[Issuer] # "new" =>
          /\ aio_type' = aio_type
          /\ ictx' \in {ictx, nullptr}]_vars

\* ------------------------------------------------------------- C17

\* The thread t is inside the user callback (lines 101-103).
InCallback(t) == pc[t] = "in_cb"

\* Whoever holds the mutex of the completion is a waiter between lines 35
\* and 37, which gives the mutex up on its own.
MutexFreeOrLeaving ==
    lock # NoOwner =>
        \E w \in Waiters : lock = WaiterId(w) /\ wpc[w] = "w_check"

\* C17: while the user callback runs, state is Callback, the invoking
\* thread holds neither the mutex of the completion nor completed_reqs_lock,
\* and nobody holds either lock waiting for that thread: a callback that
\* takes either lock, or calls is_complete() or get_return_value(), is not
\* blocked by complete().
C17_CallbackOutsideLocks ==
    \A t \in Threads :
        InCallback(t) =>
            /\ state = AIO_STATE_CALLBACK
            /\ lock # ThreadId(t)
            /\ completed_reqs_lock = NoOwner
            /\ MutexFreeOrLeaving

\* The callback runs while a waiter holds the mutex of the completion.
C17_Witness ==
    /\ \E t \in Threads : InCallback(t)
    /\ \E w \in Waiters : lock = WaiterId(w)

\* ------------------------------------------------------------- C18

\* The step appends to ictx->completed_reqs: it is line 107, taken by a
\* thread that holds completed_reqs_lock.
PushesUnderLock ==
    \E t \in Threads :
        /\ pc[t] = "c_push"
        /\ pc'[t] = "c_signal"
        /\ completed_reqs_lock = ThreadId(t)

\* The context lives, event_notify is set and the event socket is valid.
EventWanted ==
    ictx # nullptr /\ event_notify = "yes" /\ socket_valid = "yes"

\* The callback has been invoked and has returned, and state is still
\* Callback.
BetweenCallbackAndComplete ==
    /\ cb_count >= 1
    /\ \A t \in Threads : ~InCallback(t)
    /\ state = AIO_STATE_CALLBACK
    /\ state' = AIO_STATE_CALLBACK

\* C18: complete() appends the completion to completed_reqs and signals
\* the event socket only when the context exists, event_notify is set and
\* the socket is valid; the append is made under completed_reqs_lock,
\* after the callback returned and before state becomes Complete; a close
\* or failed open, whose context is gone, is never appended.
C18_EventQueueGuarded ==
    /\ [][completed_reqs' # completed_reqs =>
             PushesUnderLock /\ EventWanted /\ BetweenCallbackAndComplete]_vars
    /\ [][event_socket_notified' # event_socket_notified =>
             EventWanted /\ completed_reqs >= 1]_vars
    /\ [](ictx = nullptr \/ aio_type = AIO_TYPE_CLOSE => completed_reqs = 0)

\* A request has been appended and the socket signalled.
C18_Witness ==
    /\ completed_reqs = 1
    /\ event_socket_notified = 1
    /\ state = AIO_STATE_COMPLETE

\* ------------------------------------------------------------- C19

\* The program points inside complete().
CompletePcs ==
    {"c_load", "c_destroy", "c_callback", "c_invoke", "in_cb", "c_event",
     "c_push", "c_signal", "c_complete", "c_lock", "c_notify", "c_finish_op"}

\* complete() has run and returned.
CompleteReturned ==
    cb_count >= 1 /\ \A t \in Threads : pc[t] \notin CompletePcs

\* C19: the waiters are notified only when state is Complete;
\* async_op.finish_op() comes last, after the notification, and is called
\* exactly once by a complete() whose request start_op registered, never
\* for another (an open, a close, a request never started).
C19_FinishOpLast ==
    /\ \A t \in Threads : pc[t] = "c_notify" => state = AIO_STATE_COMPLETE
    /\ finish_ops <= 1
    /\ finish_ops = 1 =>
           /\ op_registered
           /\ state = AIO_STATE_COMPLETE
           /\ \A t \in Threads : pc[t] \notin CompletePcs
    /\ CompleteReturned => finish_ops = IF op_registered THEN 1 ELSE 0

\* A waiter has returned while the tracked operation is not yet finished.
C19_Witness ==
    /\ \E w \in Waiters : wpc[w] = "w_done"
    /\ op_registered
    /\ async_op_started
    /\ finish_ops = 0

\* ------------------------------------------------------------- C20

\* The thread t is inside complete_request or fail, before its put().
InCall(t) == pc[t] \in {"cr_agg", "f_load", "f_store", "put"} \cup CompletePcs

====
